---- MODULE Spec2Model ----
(***************************************************************************)
(* A model of fuzzy-deduper: the function boundary extractor               *)
(* (parse_functions), the header parser (parse_function_header), the       *)
(* record constructor (TokenizedFunction), the shape encoders, the         *)
(* similarity score and the duplicate scanner (find_duplicates), in the    *)
(* keyword-count variant (fuzzy_deduper.py) and the flow-length variant    *)
(* (unnamed.py).                                                           *)
(*                                                                         *)
(* A source file is a sequence of lines, each an indentation column and a  *)
(* text; the tokenizer (Python's tokenize, an external collaborator) turns *)
(* it into token records and may fail on an inconsistent dedent.           *)
(***************************************************************************)
EXTENDS Integers, Sequences, FiniteSets, TLC

VARIABLES
    \* main / load_functions / find_duplicates
    corpus,          \* the files glob.iglob will produce, in its order
    min_similarity,  \* find_duplicates' threshold
    min_kw_count,    \* find_duplicates' keyword-count threshold
    fileIdx,         \* load_functions: files taken from file_list so far
    pending,         \* load_functions: records of parsed_file not yet yielded
    seen,            \* find_duplicates: the set `seen`
    output,          \* what find_duplicates printed, one entry per match
    ingested,        \* history: the records find_duplicates took, in order
    compared,        \* history: the similarity_ratio calls, <<afunction, func>>
    error,           \* the exception that ended the run, or "none"
    pc,              \* where the run is
    \* one call of parse_functions, token by token
    lines,           \* history: the source lines the tokenizer has read
    toks,            \* history: the tokens the tokenizer has yielded
    ps,              \* parse_functions' locals
    trace,           \* history: the depth before and after each token of toks
    indents,         \* the tokenizer's indentation stack
    \* one call of parse_function_header
    hdr,             \* the header it is given
    hres,            \* what it returned
    \* one call of fuzz.ratio
    matcher,         \* the SequenceMatcher fuzzywuzzy has bound at import
    pair,            \* similarity_ratio: the tokens of self and of the other record
    words,           \* the two strings fuzz.ratio is given
    score            \* what it returned

vars == <<corpus, min_similarity, min_kw_count, fileIdx, pending, seen, output,
          ingested, compared, error, pc, lines, toks, ps, trace, indents, hdr, hres,
          matcher, pair, words, score>>

scanVars == <<corpus, min_similarity, min_kw_count, fileIdx, pending, seen,
              output, ingested, compared>>
parseVars == <<lines, toks, ps, trace, indents>>
headerVars == <<hdr, hres>>
scorerVars == <<matcher, pair, words, score>>

(***************************************************************************)
(* Bounds of the model.                                                    *)
(***************************************************************************)
MaxLines == 4
MaxFiles == 2
MaxParams == 2

(***************************************************************************)
(* Helpers on sequences.                                                   *)
(***************************************************************************)
Range(s) == {s[i] : i \in 1..Len(s)}

Last(s) == s[Len(s)]

SeqsUpTo(S, n) == UNION {[1..k -> S] : k \in 0..n}

RECURSIVE Flatten(_)
Flatten(ss) == IF ss = <<>> THEN <<>> ELSE Head(ss) \o Flatten(Tail(ss))

\* Every ordering of a finite set.
RECURSIVE Orderings(_)
Orderings(S) ==
    IF S = {} THEN {<<>>}
    ELSE UNION {{<<x>> \o o : o \in Orderings(S \ {x})} : x \in S}

(***************************************************************************)
(* Token records of Python's tokenize: type, string, start.                *)
(***************************************************************************)
NAME == 1
INDENT == 5
DEDENT == 6

\* The other token types the tokenizer yields (Python 3.8 and later).
token == [ENDMARKER |-> 0, NUMBER |-> 2, NEWLINE |-> 4, OP |-> 54, ENCODING |-> 63]

Tok(t, s, l, c) == [type |-> t, string |-> s, start |-> <<l, c>>]

NoToken == [type |-> -1, string |-> "<unbound>", start |-> <<0, 0>>]

(***************************************************************************)
(* The tokenizer.  Lex gives the tokens of one line's text as              *)
(* <<type, string>> pairs; tokenize_line adds the INDENT or DEDENT tokens  *)
(* the line's column calls for, the positions and the NEWLINE.             *)
(***************************************************************************)
Nm(s) == <<NAME, s>>
Op(s) == <<token.OP, s>>
Num(s) == <<token.NUMBER, s>>

Lex(text) ==
    CASE text = "def f(a):"      -> <<Nm("def"), Nm("f"), Op("("), Nm("a"), Op(")"), Op(":")>>
      [] text = "def g():"       -> <<Nm("def"), Nm("g"), Op("("), Op(")"), Op(":")>>
      [] text = "def g(): pass"  -> <<Nm("def"), Nm("g"), Op("("), Op(")"), Op(":"), Nm("pass")>>
      [] text = "def h(a=):"     -> <<Nm("def"), Nm("h"), Op("("), Nm("a"), Op("="), Op(")"), Op(":")>>
      [] text = "def __init__(self):" ->
            <<Nm("def"), Nm("__init__"), Op("("), Nm("self"), Op(")"), Op(":")>>
      [] text = "if x:"          -> <<Nm("if"), Nm("x"), Op(":")>>
      [] text = "return x"       -> <<Nm("return"), Nm("x")>>
      [] text = "x = 1"          -> <<Nm("x"), Op("="), Num("1")>>
      [] text = "for x in x: return x" ->
            <<Nm("for"), Nm("x"), Nm("in"), Nm("x"), Op(":"), Nm("return"), Nm("x")>>
      [] text = "for x in x: pass" ->
            <<Nm("for"), Nm("x"), Nm("in"), Nm("x"), Op(":"), Nm("pass")>>
      [] text = "while x: return x" ->
            <<Nm("while"), Nm("x"), Op(":"), Nm("return"), Nm("x")>>
      [] text = "for x in x: if x: return x" ->
            <<Nm("for"), Nm("x"), Nm("in"), Nm("x"), Op(":"),
              Nm("if"), Nm("x"), Op(":"), Nm("return"), Nm("x")>>
      [] text = "while x: if x: return x" ->
            <<Nm("while"), Nm("x"), Op(":"),
              Nm("if"), Nm("x"), Op(":"), Nm("return"), Nm("x")>>

Line(c, text) == [col |-> c, text |-> text]

\* The DEDENT tokens of a line at column c: one per stack entry above c.
DedentCount(stack, c) == Cardinality({i \in 1..Len(stack) : stack[i] > c})

\* The tokens of line number lnum, given the indentation stack before it:
\* [toks, indents, error].  A dedent to a column that is not on the stack is
\* tokenize's IndentationError, raised before any token of the line.
tokenize_line(stack, lnum, line) ==
    LET c == line.col
        body == Lex(line.text)
        text == [i \in 1..Len(body) |-> Tok(body[i][1], body[i][2], lnum, c + i - 1)]
        nl == <<Tok(token.NEWLINE, "\n", lnum, c + Len(body))>>
    IN  IF c > Last(stack)
        THEN [toks |-> <<Tok(INDENT, " ", lnum, 0)>> \o text \o nl,
              indents |-> Append(stack, c), error |-> FALSE]
        ELSE IF c < Last(stack) /\ c \notin Range(stack)
        THEN [toks |-> <<>>, indents |-> stack, error |-> TRUE]
        ELSE LET k == DedentCount(stack, c)
             IN  [toks |-> [i \in 1..k |-> Tok(DEDENT, "", lnum, c)] \o text \o nl,
                  indents |-> SubSeq(stack, 1, Len(stack) - k), error |-> FALSE]

\* What the tokenizer yields first, and at the end of the file.
tokenize_start == <<Tok(token.ENCODING, "utf-8", 0, 0)>>

tokenize_end(stack, lnum) ==
    [i \in 1..(Len(stack) - 1) |-> Tok(DEDENT, "", lnum, 0)]
        \o <<Tok(token.ENDMARKER, "", lnum, 0)>>

\* tokenize.tokenize over a whole file: [toks, error].
RECURSIVE tokenize_from(_, _, _, _)
tokenize_from(src, i, stack, acc) ==
    IF i > Len(src)
    THEN [toks |-> acc \o tokenize_end(stack, i), error |-> FALSE]
    ELSE LET r == tokenize_line(stack, i, src[i])
         IN  IF r.error THEN [toks |-> acc, error |-> TRUE]
             ELSE tokenize_from(src, i + 1, r.indents, acc \o r.toks)

tokenize(src) == tokenize_from(src, 1, <<0>>, tokenize_start)

(***************************************************************************)
(* parse_function_header: one step per token, then the result.             *)
(***************************************************************************)
header_start == [name |-> "", args |-> <<>>, state |-> "start", returned |-> FALSE]

header_step(h, s) ==
    IF h.returned THEN h
    ELSE IF s = "def" THEN [h EXCEPT !.state = "name"]
    ELSE IF h.state = "skip_parenthesis"
    THEN (IF s = ")" THEN [h EXCEPT !.state = "args"] ELSE h)
    ELSE IF h.state = "skip"
    THEN (IF s = "(" THEN [h EXCEPT !.state = "skip_parenthesis"]
                     ELSE [h EXCEPT !.state = "args"])
    ELSE IF h.state = "name" THEN [h EXCEPT !.name = s, !.state = "args"]
    ELSE IF s \in {"\n", "(", ","} THEN h
    ELSE IF s \in {":", "="} THEN [h EXCEPT !.state = "skip"]
    ELSE IF s = ")" THEN [h EXCEPT !.returned = TRUE]
    ELSE [h EXCEPT !.args = Append(@, s)]

RECURSIVE header_loop(_, _, _)
header_loop(h, strings, i) ==
    IF i > Len(strings) THEN h
    ELSE header_loop(header_step(h, strings[i]), strings, i + 1)

\* [name, args], or None (none = TRUE) when the loop ends without a return.
parse_function_header_strings(strings) ==
    LET h == header_loop(header_start, strings, 1)
    IN  IF h.returned THEN [none |-> FALSE, name |-> h.name, args |-> h.args]
        ELSE [none |-> TRUE, name |-> "", args |-> <<>>]

parse_function_header(function_tokens) ==
    parse_function_header_strings([i \in 1..Len(function_tokens) |-> function_tokens[i].string])

(***************************************************************************)
(* The shape encoders.  A shape word is a sequence of code points.         *)
(***************************************************************************)
KW_DICT ==
    "and" :> 1200 @@ "del" :> 1201 @@ "from" :> 1202 @@ "not" :> 1203 @@
    "while" :> 1204 @@ "as" :> 1205 @@ "elif" :> 1206 @@ "global" :> 1207 @@
    "or" :> 1208 @@ "with" :> 1209 @@ "assert" :> 1210 @@ "else" :> 1211 @@
    "if" :> 1212 @@ "pass" :> 1213 @@ "yield" :> 1214 @@ "break" :> 1215 @@
    "except" :> 1216 @@ "import" :> 1217 @@ "print" :> 1218 @@ "class" :> 1219 @@
    "exec" :> 1220 @@ "in" :> 1221 @@ "raise" :> 1222 @@ "continue" :> 1223 @@
    "finally" :> 1224 @@ "is" :> 1225 @@ "return" :> 1226 @@ "def" :> 1227 @@
    "for" :> 1228 @@ "lambda" :> 1229 @@ "try" :> 1230

\* Mutant: only the keywords are encoded.
create_token_type_word_keywords(tokens) ==
    LET kw == SelectSeq(tokens, LAMBDA t : t.type = NAME /\ t.string \in DOMAIN KW_DICT)
    IN  [i \in 1..Len(kw) |-> KW_DICT[kw[i].string]]

\* Mutant: every token is encoded by its type.
create_token_type_word_types(tokens) == [i \in 1..Len(tokens) |-> tokens[i].type]

\* Mutant: a token that is no keyword is encoded by its type and the length
\* of its text.
create_token_type_word_spelled(tokens) ==
    [i \in 1..Len(tokens) |->
        IF tokens[i].type = NAME /\ tokens[i].string \in DOMAIN KW_DICT
        THEN KW_DICT[tokens[i].string]
        ELSE 100 * Len(tokens[i].string) + tokens[i].type]

\* chr(token.type) is the code point token.type.
create_token_type_word(tokens) ==
    [i \in 1..Len(tokens) |->
        IF tokens[i].type = NAME /\ tokens[i].string \in DOMAIN KW_DICT
        THEN KW_DICT[tokens[i].string]
        ELSE tokens[i].type]

count_keywords(function_tokens) ==
    Cardinality({i \in 1..Len(function_tokens) :
                    function_tokens[i].string \in DOMAIN KW_DICT})

(***************************************************************************)
(* fuzz.ratio (fuzzywuzzy): 100 for equal strings, 0 when one is empty,    *)
(* else round(100 * 2M / T), M the number of matched characters (the       *)
(* longest common subsequence: T - 2M is the edit distance with            *)
(* insertion and deletion at cost 1 and substitution at cost 2),           *)
(* T = len(s1) + len(s2), rounded as Python 3 rounds (half to even).       *)
(***************************************************************************)
Max(a, b) == IF a >= b THEN a ELSE b

\* One row of the longest-common-subsequence table: row[j + 1] is the length
\* for the first i characters of s1 and the first j of s2.
RECURSIVE lcs_row(_, _, _, _)
lcs_row(prev, c, s2, acc) ==
    LET j == Len(acc)
    IN  IF j > Len(s2) THEN acc
        ELSE lcs_row(prev, c, s2,
                Append(acc, IF c = s2[j] THEN prev[j] + 1
                            ELSE Max(prev[j + 1], acc[j])))

RECURSIVE lcs_rows(_, _, _, _)
lcs_rows(s1, s2, i, prev) ==
    IF Len(prev) = 0 \/ i > Len(s1) THEN prev
    ELSE lcs_rows(s1, s2, i + 1, lcs_row(prev, s1[i], s2, <<0>>))

\* StringMatcher (python-Levenshtein): the matched characters are a longest
\* common subsequence.
lcs(s1, s2) == Last(lcs_rows(s1, s2, 1, [j \in 1..(Len(s2) + 1) |-> 0]))

\* difflib.SequenceMatcher: the length of the common run that starts at s1[i]
\* and s2[j] and stays within s1[..ahi], s2[..bhi].
RECURSIVE run_from(_, _, _, _, _, _)
run_from(s1, s2, i, j, ahi, bhi) ==
    IF i > ahi \/ j > bhi THEN 0
    ELSE IF s1[i] # s2[j] THEN 0
    ELSE 1 + run_from(s1, s2, i + 1, j + 1, ahi, bhi)

\* find_longest_match in s1[alo..ahi], s2[blo..bhi]: the longest block, of
\* those the one that starts earliest in s1, of those the earliest in s2.
find_longest_match(s1, s2, alo, ahi, blo, bhi) ==
    LET starts == (alo..ahi) \X (blo..bhi)
        size(e) == run_from(s1, s2, e[1], e[2], ahi, bhi)
        k == IF starts = {} THEN 0
             ELSE CHOOSE n \in {size(e) : e \in starts} :
                      \A e \in starts : size(e) <= n
        longest == {e \in starts : size(e) = k}
        i == CHOOSE x \in {e[1] : e \in longest} : \A e \in longest : x <= e[1]
        j == CHOOSE y \in {e[2] : e \in {d \in longest : d[1] = i}} :
                 \A e \in longest : e[1] = i => y <= e[2]
    IN  IF k = 0 THEN [size |-> 0, a |-> alo, b |-> blo]
        ELSE [size |-> k, a |-> i, b |-> j]

\* get_matching_blocks: the longest block, then the same to its left and to
\* its right; the sum of the sizes of the blocks.
RECURSIVE matching_blocks(_, _, _, _, _, _)
matching_blocks(s1, s2, alo, ahi, blo, bhi) ==
    IF alo > ahi \/ blo > bhi THEN 0
    ELSE LET m == find_longest_match(s1, s2, alo, ahi, blo, bhi)
         IN  IF m.size = 0 THEN 0
             ELSE m.size
                    + matching_blocks(s1, s2, alo, m.a - 1, blo, m.b - 1)
                    + matching_blocks(s1, s2, m.a + m.size, ahi, m.b + m.size, bhi)

\* The bindings fuzzywuzzy can have for SequenceMatcher.
Matchers == {"StringMatcher", "difflib"}

\* The number of matched characters M of SequenceMatcher(None, s1, s2).
matched(s1, s2) ==
    IF matcher = "StringMatcher" THEN lcs(s1, s2)
    ELSE matching_blocks(s1, s2, 1, Len(s1), 1, Len(s2))

\* int(round(n / d)), halves to the even neighbour.
intr(n, d) ==
    LET q == n \div d
        r == n % d
    IN  IF 2 * r > d THEN q + 1
        ELSE IF 2 * r < d THEN q
        ELSE IF q % 2 = 0 THEN q ELSE q + 1

ratio(s1, s2) ==
    IF s1 = s2 THEN 100
    ELSE IF Len(s1) = 0 \/ Len(s2) = 0 THEN 0
    ELSE intr(200 * matched(s1, s2), Len(s1) + Len(s2))

\* TokenizedFunction.similarity_ratio (fuzzy_deduper.py).
similarity_ratio(self, tokenized_function) ==
    ratio(create_token_type_word(self.tokens),
          create_token_type_word(tokenized_function.tokens))

(***************************************************************************)
(* TokenizedFunction.__init__ and parse_functions.  parsed_tokens is a     *)
(* reference to a list object of the heap `lists`; a record's tokens is    *)
(* the same reference.                                                     *)
(***************************************************************************)
TokenizedFunction(file_url, def_token, ref, parsed_tokens) ==
    LET parsed_header == parse_function_header(parsed_tokens)
    IN  [tokens |-> ref,
         file_url |-> file_url,
         line |-> def_token.start[1],
         name |-> parsed_header.name,
         args |-> parsed_header.args,
         kw_count |-> count_keywords(parsed_tokens)]

\* parse_functions' locals before its loop.
scan_start ==
    [indent |-> 0, def_token |-> NoToken, parsed_tokens |-> 0, lists |-> <<>>,
     functions |-> <<>>, raised |-> FALSE]

\* Mutant: the buffer is not cleared, the old list is kept.
new_list_kept(s) ==
    IF s.parsed_tokens = 0
    THEN [s EXCEPT !.lists = Append(@, <<>>), !.parsed_tokens = Len(s.lists) + 1]
    ELSE [s EXCEPT !.lists = Append(@, s.lists[s.parsed_tokens]),
                   !.parsed_tokens = Len(s.lists) + 1]

\* Mutant: parsed_tokens.clear() empties the list object in place.
new_list_cleared(s) ==
    IF s.parsed_tokens = 0
    THEN [s EXCEPT !.lists = Append(@, <<>>), !.parsed_tokens = Len(s.lists) + 1]
    ELSE [s EXCEPT !.lists[s.parsed_tokens] = <<>>]

\* `parsed_tokens = []` binds the name to a new list object.
new_list(s) == [s EXCEPT !.lists = Append(@, <<>>), !.parsed_tokens = Len(s.lists) + 1]

\* Mutant: a 'def' starts a function at any depth.
is_def_start_any_depth(s, token_info) == token_info.string = "def"

\* The test that starts a function (line 66) and the one that ends it (line 76).
is_def_start(s, token_info) == s.indent = 0 /\ token_info.string = "def"

\* Mutant: any block-close ends the function.
is_close_any(s, token_info) == s.indent >= 1 /\ token_info.type = DEDENT

is_close(s, token_info) == s.indent = 1 /\ token_info.type = DEDENT

\* One iteration of parse_functions' loop.
scan_token(url, s, token_info) ==
    LET typ == token_info.type
        \* lines 66-75
        s1 == IF is_def_start(s, token_info)
              THEN [new_list(s) EXCEPT !.def_token = token_info, !.indent = -1]
              ELSE IF s.indent = -1 /\ typ = INDENT THEN [s EXCEPT !.indent = 2]
              ELSE IF s.indent > 1 /\ typ = DEDENT THEN [s EXCEPT !.indent = @ - 1]
              ELSE IF s.indent > 1 /\ typ = INDENT THEN [s EXCEPT !.indent = @ + 1]
              ELSE s
        \* lines 76-80
        s2 == IF is_close(s1, token_info)
              THEN LET ref == s1.parsed_tokens
                       l == Append(s1.lists[ref], token_info)
                       s1a == [s1 EXCEPT !.indent = 0, !.lists[ref] = l]
                   IN  IF parse_function_header(l).none
                       THEN [s1a EXCEPT !.raised = TRUE]
                       ELSE [s1a EXCEPT !.functions =
                                Append(@, TokenizedFunction(url, s1.def_token, ref, l))]
              ELSE s1
    IN  \* lines 81-82
        IF ~s2.raised /\ (s2.indent > 0 \/ s2.indent = -1)
        THEN [s2 EXCEPT !.lists[s2.parsed_tokens] = Append(@, token_info)]
        ELSE s2

\* The loop over the tokens ts, from the state s; an exception ends it.
RECURSIVE scan_loop(_, _, _, _)
scan_loop(url, s, ts, i) ==
    IF i > Len(ts) \/ s.raised THEN s
    ELSE scan_loop(url, scan_token(url, s, ts[i]), ts, i + 1)

\* The depth before and after each token the loop takes.
RECURSIVE depth_trace(_, _, _, _)
depth_trace(url, s, ts, i) ==
    IF i > Len(ts) \/ s.raised THEN <<>>
    ELSE LET n == scan_token(url, s, ts[i])
         IN  <<[before |-> s.indent, after |-> n.indent]>> \o depth_trace(url, n, ts, i + 1)

\* The records parse_functions returns: each with the tokens its list holds.
returned_functions(s) ==
    [i \in 1..Len(s.functions) |->
        [s.functions[i] EXCEPT !.tokens = s.lists[s.functions[i].tokens]]]

\* Mutant: the records finalized before the failure are handed over too.
parse_functions_yielding(url, file) ==
    IF ~file.readable THEN [raised |-> "OSError", functions |-> <<>>]
    ELSE LET t == tokenize(file.lines)
             s == scan_loop(url, scan_start, t.toks, 1)
         IN  [raised |-> IF s.raised THEN "TypeError"
                         ELSE IF t.error THEN "IndentationError" ELSE "none",
              functions |-> returned_functions(s)]

\* parse_functions(url) on the file `file`: what it raises, or its records.
parse_functions(url, file) ==
    IF ~file.readable THEN [raised |-> "OSError", functions |-> <<>>]
    ELSE LET t == tokenize(file.lines)
             s == scan_loop(url, scan_start, t.toks, 1)
         IN  IF s.raised THEN [raised |-> "TypeError", functions |-> <<>>]
             ELSE IF t.error THEN [raised |-> "IndentationError", functions |-> <<>>]
             ELSE [raised |-> "none", functions |-> returned_functions(s)]

(***************************************************************************)
(* SpecParse: one call of parse_functions, the tokenizer reading the file  *)
(* one line at a time.                                                     *)
(***************************************************************************)
ParseUrl == "a.py"

ParseCols == {0, 1, 2}

\* The lines a file is made of: a statement at any column, a function header
\* or a one-line function at the top level or one level in, and a header that
\* parse_function_header cannot parse.
ParseLines ==
    {Line(c, "return x") : c \in ParseCols}
        \cup {Line(c, t) : c \in {0, 1}, t \in {"def f(a):", "def g(): pass"}}
        \cup {Line(0, "def h(a=):")}

IdleScan ==
    /\ corpus = <<>> /\ min_similarity = 0 /\ min_kw_count = 0 /\ fileIdx = 0
    /\ pending = <<>> /\ seen = {} /\ output = <<>> /\ ingested = <<>>
    /\ compared = {}

IdleParse ==
    lines = <<>> /\ toks = <<>> /\ ps = scan_start /\ trace = <<>> /\ indents = <<0>>

IdleHeader == hdr = <<>> /\ hres = [none |-> TRUE, name |-> "", args |-> <<>>]

\* fuzz.ratio not called; without python-Levenshtein the matcher is difflib's.
IdleScorer == pair = <<<<>>, <<>>>> /\ words = <<<<>>, <<>>>> /\ score = -1

NoSpeedup == matcher = "difflib"

InitParse ==
    /\ IdleScan /\ IdleParse /\ IdleHeader /\ IdleScorer /\ NoSpeedup
    /\ error = "none" /\ pc = "open"

\* open() and the tokenizer's first token.
P_Open ==
    /\ pc = "open"
    /\ toks' = tokenize_start
    /\ ps' = scan_loop(ParseUrl, ps, tokenize_start, 1)
    /\ trace' = depth_trace(ParseUrl, ps, tokenize_start, 1)
    /\ pc' = "scan"
    /\ UNCHANGED <<lines, indents, error>>
    /\ UNCHANGED scanVars /\ UNCHANGED headerVars /\ UNCHANGED scorerVars

\* The tokenizer reads one more line and the loop takes its tokens.
P_ScanLine ==
    /\ pc = "scan"
    /\ Len(lines) < MaxLines
    /\ \E line \in ParseLines :
          LET r == tokenize_line(indents, Len(lines) + 1, line)
              s == scan_loop(ParseUrl, ps, r.toks, 1)
              d == depth_trace(ParseUrl, ps, r.toks, 1)
          IN  /\ ~r.error
              /\ lines' = Append(lines, line)
              /\ toks' = toks \o SubSeq(r.toks, 1, Len(d))
              /\ trace' = trace \o d
              /\ indents' = r.indents
              /\ ps' = s
              /\ pc' = IF s.raised THEN "raised" ELSE "scan"
              /\ error' = IF s.raised THEN "TypeError" ELSE error
    /\ UNCHANGED scanVars /\ UNCHANGED headerVars /\ UNCHANGED scorerVars

\* The tokenizer raises on the next line.
P_TokenizeError ==
    /\ pc = "scan"
    /\ Len(lines) < MaxLines
    /\ \E line \in ParseLines :
          /\ tokenize_line(indents, Len(lines) + 1, line).error
          /\ lines' = Append(lines, line)
    /\ pc' = "raised"
    /\ error' = "IndentationError"
    /\ UNCHANGED <<toks, ps, trace, indents>>
    /\ UNCHANGED scanVars /\ UNCHANGED headerVars /\ UNCHANGED scorerVars

\* The file ends: the closing DEDENTs, ENDMARKER, and `return functions`.
P_EndOfFile ==
    /\ pc = "scan"
    /\ LET ts == tokenize_end(indents, Len(lines) + 1)
           s == scan_loop(ParseUrl, ps, ts, 1)
           d == depth_trace(ParseUrl, ps, ts, 1)
       IN  /\ toks' = toks \o SubSeq(ts, 1, Len(d))
           /\ trace' = trace \o d
           /\ ps' = s
           /\ pc' = IF s.raised THEN "raised" ELSE "returned"
           /\ error' = IF s.raised THEN "TypeError" ELSE error
    /\ indents' = <<0>>
    /\ UNCHANGED lines
    /\ UNCHANGED scanVars /\ UNCHANGED headerVars /\ UNCHANGED scorerVars

NextParse == P_Open \/ P_ScanLine \/ P_TokenizeError \/ P_EndOfFile

SpecParse == InitParse /\ [][NextParse]_vars

(***************************************************************************)
(* Claims about parse_functions, checked under SpecParse.                  *)
(***************************************************************************)
\* The tokens the list of record f holds.
TokensOf(f) == ps.lists[f.tokens]

\* The indices of toks at which the loop started a function.
IsAnchor(i) == trace[i].before = 0 /\ toks[i].string = "def"

\* The indices at which it finalized one.
IsClose(j) == trace[j].before # 0 /\ trace[j].after = 0

Scanned == 1..Len(trace)

\* Record f holds exactly the run of toks from index i to index j.
HoldsRun(f, i, j) ==
    /\ IsAnchor(i) /\ toks[i].start[1] = f.line
    /\ IsClose(j) /\ toks[j].type = DEDENT
    /\ \A k \in (i + 1)..j : trace[k].before # 0
    /\ TokensOf(f) = SubSeq(toks, i, j)

\* C5: every emitted record's tokens are exactly the contiguous run of the
\* file's tokens from the anchoring 'def' (taken at depth 0) through the
\* block-close token that finalizes the function, in order, each once: the
\* first is the 'def', the last the closing DEDENT, and no other token taken
\* at depth 0 is in the run.
C5_TokensAreTheRun ==
    pc \in {"scan", "returned", "raised"} =>
        \A n \in 1..Len(ps.functions) :
            \E i \in Scanned : \E j \in i..Len(trace) : HoldsRun(ps.functions[n], i, j)

\* C5's case: a returned record whose body holds a nested block.
C5_Witness ==
    /\ pc = "returned"
    /\ \E n \in 1..Len(ps.functions) :
          Cardinality({k \in 1..Len(TokensOf(ps.functions[n])) :
                          TokensOf(ps.functions[n])[k].type = INDENT}) >= 2

\* The lines of the 'def' tokens taken at depth 0, in order.
AnchorLines ==
    LET Test(i) == IsAnchor(i)
        idx == SelectSeq([i \in 1..Len(trace) |-> i], Test)
    IN  [n \in 1..Len(idx) |-> toks[idx[n]].start[1]]

RecordLines == [n \in 1..Len(ps.functions) |-> ps.functions[n].line]

\* C6: when parse_functions returns, it has emitted exactly one record for
\* each 'def' token taken at depth 0, anchored at that token's line, in
\* order, and no other record.
C6_OneRecordPerDef == pc = "returned" => RecordLines = AnchorLines

\* The function enclosing index k: the last anchor before it.
EnclosingAnchor(k) == {i \in 1..k : IsAnchor(i) /\ \A m \in (i + 1)..k : ~IsAnchor(m)}

\* The list object bound to parsed_tokens at anchor i: each anchor makes one.
ListOfAnchor(i) == Cardinality({m \in 1..i : IsAnchor(m)})

\* The indices of toks record f spans.
SpanOf(f) ==
    {k \in Scanned : \E i \in Scanned :
        /\ IsAnchor(i) /\ toks[i].start[1] = f.line
        /\ i <= k /\ k < i + Len(TokensOf(f))}

\* C7: a 'def' or a block-open taken while a body is open (depth > 1) starts
\* no record: the depth stays above 1, no record begins with it, and the
\* token run from the enclosing function's 'def' through it is in the
\* enclosing function's token list; the spans of the records of one file are
\* pairwise disjoint.
C7_NestedAbsorbed ==
    pc \in {"scan", "returned", "raised"} =>
        /\ \A k \in Scanned :
              (trace[k].before > 1 /\ (toks[k].string = "def" \/ toks[k].type = INDENT)) =>
                  /\ trace[k].after > 1
                  /\ \A n \in 1..Len(ps.functions) :
                        Len(TokensOf(ps.functions[n])) > 0 =>
                            TokensOf(ps.functions[n])[1] # toks[k]
                  /\ EnclosingAnchor(k) # {}
                  /\ \A i \in EnclosingAnchor(k) :
                        /\ ListOfAnchor(i) \in 1..Len(ps.lists)
                        /\ Len(ps.lists[ListOfAnchor(i)]) >= k - i + 1
                        /\ SubSeq(ps.lists[ListOfAnchor(i)], 1, k - i + 1) = SubSeq(toks, i, k)
        /\ \A n, m \in 1..Len(ps.functions) :
              n # m => SpanOf(ps.functions[n]) \cap SpanOf(ps.functions[m]) = {}

\* C7's case: a returned record that holds a nested 'def'.
C7_Witness ==
    /\ pc = "returned"
    /\ \E n \in 1..Len(ps.functions) :
          Cardinality({k \in 1..Len(TokensOf(ps.functions[n])) :
                          TokensOf(ps.functions[n])[k].string = "def"}) >= 2

\* C15: every record emitted by the extractor has a non-empty tokens
\* sequence, and its full shape string has exactly one symbol per token.
C15_OneSymbolPerToken ==
    pc \in {"scan", "returned", "raised"} =>
        \A n \in 1..Len(ps.functions) :
            /\ Len(TokensOf(ps.functions[n])) > 0
            /\ Len(create_token_type_word(TokensOf(ps.functions[n])))
                  = Len(TokensOf(ps.functions[n]))

\* C15's case: parse_functions returned two records.
C15_Witness == pc = "returned" /\ Len(ps.functions) = 2

\* C16: once a record has been finalized nothing changes it: every later
\* step of the scan leaves it in the list of records, with its tokens, name,
\* parameters, line and keyword count unchanged, so its shape stays the one
\* it had at creation.
C16_RecordsFrozen ==
    [][\A n \in 1..Len(ps.functions) :
          /\ n <= Len(ps'.functions)
          /\ ps'.functions[n] = ps.functions[n]
          /\ ps.functions[n].tokens \in 1..Len(ps'.lists)
          /\ ps'.lists[ps.functions[n].tokens] = ps.lists[ps.functions[n].tokens]
          /\ create_token_type_word(ps'.lists[ps.functions[n].tokens])
                = create_token_type_word(ps.lists[ps.functions[n].tokens])]_vars

\* C16's case: after a record was finalized the scan has started a later
\* function and buffered tokens of it.
C16_Witness ==
    /\ pc = "scan"
    /\ Len(ps.functions) >= 1
    /\ ps.indent = 2
    /\ ps.parsed_tokens \in 1..Len(ps.lists)
    /\ \A n \in 1..Len(ps.functions) : ps.functions[n].tokens # ps.parsed_tokens
    /\ Len(ps.lists[ps.parsed_tokens]) > 0

\* The token that opens the body of the function anchored at index i: the
\* first block-open after it.
BodyOpen(i) ==
    {o \in Scanned : /\ o > i /\ toks[o].type = INDENT
                     /\ \A m \in (i + 1)..(o - 1) : toks[m].type # INDENT}

\* Block-opens less block-closes among the tokens o..k.
Net(o, k) ==
    Cardinality({m \in o..k : toks[m].type = INDENT})
        - Cardinality({m \in o..k : toks[m].type = DEDENT})

\* The body opened at o is still open before token k.
OpenUpTo(o, k) == \A m \in o..(k - 1) : Net(o, m) > 0

\* C17: a function is finalized exactly at the block-close that matches the
\* block-open of its body: the first token at which the block-closes since
\* the body opened equal the block-opens from the opening one on, and the
\* depth is then 0; until then the depth is 2 plus the nesting of the pairs
\* inside the body, and a nested pair never finalizes the function.
C17_CloseMatchesOpen ==
    pc \in {"scan", "returned", "raised"} =>
        /\ \A i \in Scanned : IsAnchor(i) =>
              \A o \in BodyOpen(i) : \A k \in o..Len(trace) :
                  OpenUpTo(o, k) =>
                      IF Net(o, k) > 0
                      THEN trace[k].after = 2 + (Net(o, k) - 1) /\ ~IsClose(k)
                      ELSE trace[k].after = 0 /\ IsClose(k) /\ toks[k].type = DEDENT
        /\ \A k \in Scanned : IsClose(k) =>
              \E i \in 1..k : \E o \in BodyOpen(i) :
                  IsAnchor(i) /\ o <= k /\ OpenUpTo(o, k) /\ Net(o, k) = 0

\* C17's case: a pair nested in a body was closed at depth 3 and the
\* function was finalized later.
C17_Witness ==
    /\ pc = "returned"
    /\ Len(ps.functions) = 1
    /\ \E k \in Scanned : trace[k].before = 3 /\ toks[k].type = DEDENT

(***************************************************************************)
(* Spec: a run of fuzzy_deduper.py.  main reads the thresholds,            *)
(* load_functions takes the files one by one and yields each file's        *)
(* records, find_duplicates compares each with the records seen.           *)
(***************************************************************************)
\* Function texts: a header line and body lines.
FnFor == <<Line(0, "def f(a):"), Line(1, "for x in x: return x")>>
FnWhile == <<Line(0, "def f(a):"), Line(1, "while x: return x")>>
FnBadHeader == <<Line(0, "def h(a=):"), Line(1, "return x")>>

File(url, ls) == [url |-> url, readable |-> TRUE, lines |-> ls]

\* The files the directory may hold.
Files ==
    { File("a.py", FnFor),
      File("b.py", FnFor \o FnWhile),
      File("c.py", FnFor \o FnBadHeader),
      \* a dedent to a column that is on no outer level
      File("d.py", FnFor \o <<Line(0, "if x:"), Line(2, "return x"), Line(1, "x = 1")>>),
      \* a file open() cannot read
      [url |-> "e.py", readable |-> FALSE, lines |-> <<>>] }

\* What glob.iglob may produce: each file once, in any order.
Corpora(files) ==
    {c \in SeqsUpTo(files, MaxFiles) : \A i, j \in 1..Len(c) : c[i] = c[j] => i = j}

\* The numeric arguments after the path.
Argvs == {<<>>, <<90>>, <<85, 3>>}

\* main: the thresholds, with their defaults.
main(argv) ==
    [min_similarity |-> IF Len(argv) >= 1 THEN argv[1] ELSE 85,
     min_kw_count |-> IF Len(argv) >= 2 THEN argv[2] ELSE 4]

Init ==
    /\ corpus \in Corpora(Files)
    /\ \E argv \in Argvs :
          /\ min_similarity = main(argv).min_similarity
          /\ min_kw_count = main(argv).min_kw_count
    /\ fileIdx = 0 /\ pending = <<>> /\ seen = {} /\ output = <<>>
    /\ ingested = <<>> /\ compared = {}
    /\ error = "none" /\ pc = "load"
    /\ IdleParse /\ IdleHeader /\ IdleScorer
    /\ matcher \in Matchers

\* load_functions: the next file of file_list goes through parse_functions;
\* an exception of parse_functions leaves load_functions and find_duplicates.
LoadFile ==
    /\ pc = "load"
    /\ fileIdx < Len(corpus)
    /\ LET r == parse_functions(corpus[fileIdx + 1].url, corpus[fileIdx + 1])
       IN  /\ fileIdx' = fileIdx + 1
           /\ pending' = r.functions
           /\ error' = r.raised
           /\ pc' = IF r.raised # "none" THEN "aborted"
                    ELSE IF r.functions = <<>> THEN "load" ELSE "yield"
    /\ UNCHANGED <<corpus, min_similarity, min_kw_count, seen, output, ingested, compared>>
    /\ UNCHANGED parseVars /\ UNCHANGED headerVars /\ UNCHANGED scorerVars

\* load_functions: file_list is exhausted, the generator ends.
LoadDone ==
    /\ pc = "load"
    /\ fileIdx = Len(corpus)
    /\ pc' = "done"
    /\ UNCHANGED <<error>>
    /\ UNCHANGED scanVars /\ UNCHANGED parseVars /\ UNCHANGED headerVars /\ UNCHANGED scorerVars

\* Mutant: the keyword count of the record seen earlier is not tested.
is_duplicate_new_only(afunction, func, similarity, min_sim, min_kw) ==
    /\ similarity >= min_sim
    /\ afunction.kw_count >= min_kw

\* The condition under which find_duplicates prints a pair.
is_duplicate(afunction, func, similarity, min_sim, min_kw) ==
    /\ similarity >= min_sim
    /\ func.kw_count >= min_kw
    /\ afunction.kw_count >= min_kw

\* One printed match.
Match(afunction, func, similarity) ==
    [afunction |-> afunction, func |-> func, similarity |-> similarity]

\* The body of the inner loop `for func in seen`: what it prints for func.
inner_body(afunction, func, min_sim, min_kw) ==
    LET similarity == similarity_ratio(afunction, func)
    IN  IF is_duplicate(afunction, func, similarity, min_sim, min_kw)
        THEN <<Match(afunction, func, similarity)>> ELSE <<>>

\* Mutant: the newest matches come first.
print_on_top(out, matches) == matches \o out

\* print appends to what has been printed.
print(out, matches) == out \o matches

\* Mutant: records are keyed by value (shape, name, parameters).
seen_add_by_value(set, afunction) ==
    IF \E func \in set :
          /\ create_token_type_word(func.tokens) = create_token_type_word(afunction.tokens)
          /\ func.name = afunction.name /\ func.args = afunction.args
    THEN set ELSE set \cup {afunction}

\* seen.add: TokenizedFunction defines no __eq__ or __hash__, so the set is
\* keyed by object identity; a record's file_url and line identify its object.
seen_add(set, afunction) == set \cup {afunction}

\* find_duplicates: one iteration of `for afunction in tokenized_functions`.
\* The iteration order of the set `seen` is not its insertion order.
FindDuplicates ==
    /\ pc = "yield"
    /\ LET afunction == Head(pending)
           printed == [func \in seen |->
                          inner_body(afunction, func, min_similarity, min_kw_count)]
       IN  /\ \E order \in Orderings(seen) :
                 output' = print(output,
                              Flatten([i \in 1..Len(order) |-> printed[order[i]]]))
           /\ compared' = compared \cup {<<afunction, func>> : func \in seen}
           /\ seen' = seen_add(seen, afunction)
           /\ ingested' = Append(ingested, afunction)
    /\ pending' = Tail(pending)
    /\ pc' = IF Tail(pending) = <<>> THEN "load" ELSE "yield"
    /\ UNCHANGED <<corpus, min_similarity, min_kw_count, fileIdx, error>>
    /\ UNCHANGED parseVars /\ UNCHANGED headerVars /\ UNCHANGED scorerVars

Next == LoadFile \/ LoadDone \/ FindDuplicates

Spec == Init /\ [][Next]_vars

(***************************************************************************)
(* Claims about a run of fuzzy_deduper.py, checked under Spec.             *)
(***************************************************************************)
\* The positions at which record f was ingested.
Pos(f) == {i \in 1..Len(ingested) : ingested[i] = f}

\* The entries of the output that report the pair ingested[i], ingested[j].
Reports(i, j) ==
    {k \in 1..Len(output) :
        output[k].afunction = ingested[i] /\ output[k].func = ingested[j]}

\* The pairs the keyword-count policy calls duplicates.
ExpectedPairs ==
    {e \in (1..Len(ingested)) \X (1..Len(ingested)) :
        /\ e[2] < e[1]
        /\ similarity_ratio(ingested[e[1]], ingested[e[2]]) >= min_similarity
        /\ ingested[e[1]].kw_count >= min_kw_count
        /\ ingested[e[2]].kw_count >= min_kw_count}

\* C1: find_duplicates reports exactly the pairs (fi, fj) with j < i,
\* similarity(fi, fj) >= min_similarity and both keyword counts >=
\* min_kw_count, each exactly once and with its similarity; no function is
\* compared with itself or with a function ingested after it.
C1_ExactPairs ==
    LET expected == ExpectedPairs
    IN  /\ \A k \in 1..Len(output) :
              /\ \E e \in expected : k \in Reports(e[1], e[2])
              /\ output[k].similarity =
                    similarity_ratio(output[k].afunction, output[k].func)
        /\ \A e \in expected : Cardinality(Reports(e[1], e[2])) = 1
        /\ \A c \in compared :
              \E i \in Pos(c[1]) : \E j \in Pos(c[2]) : j < i

\* C1's case: a finished run over three functions or more that reported a
\* pair and left out a pair that is similar enough but fails the keyword count.
C1_Witness ==
    /\ pc = "done"
    /\ Len(ingested) >= 3
    /\ Len(output) >= 1
    /\ \E i, j \in 1..Len(ingested) :
          /\ j < i
          /\ similarity_ratio(ingested[i], ingested[j]) >= min_similarity
          /\ Reports(i, j) = {}

\* C2 as stated: match (f, g) is printed before match (f', g') whenever f was
\* ingested before f', and for the same f whenever g was added to seen before g'.
C2_DiscoveryOrder ==
    \A p, q \in 1..Len(output) :
        p < q =>
            \A i \in Pos(output[p].afunction) : \A i2 \in Pos(output[q].afunction) :
                \/ i < i2
                \/ /\ i = i2
                   /\ \A j \in Pos(output[p].func) : \A j2 \in Pos(output[q].func) : j < j2

\* C2, amended: the matches of a function ingested earlier are printed
\* before those of a function ingested later; the matches of one newly
\* ingested function come together, in the iteration order of the set.
C2_GroupedByIngestion ==
    \A p, q \in 1..Len(output) :
        p < q =>
            /\ Pos(output[p].afunction) # {} /\ Pos(output[q].afunction) # {}
            /\ \A i \in Pos(output[p].afunction) : \A i2 \in Pos(output[q].afunction) :
                  i <= i2

\* C2's case: one function's two matches are printed against the order in
\* which their partners were added to seen, after another function's match.
C2_Witness ==
    \E p, q, r \in 1..Len(output) :
        /\ p < q /\ q < r
        /\ output[p].afunction # output[q].afunction
        /\ output[q].afunction = output[r].afunction
        /\ \E j \in Pos(output[q].func) : \E j2 \in Pos(output[r].func) : j2 < j

\* The files of the corpus that parse_functions fails on, by exception.
FailsWith(i) == parse_functions(corpus[i].url, corpus[i]).raised

RunOver == pc \in {"done", "aborted"}

\* Every record of every file that parses has been ingested.
AllParsedIngested ==
    \A i \in 1..Len(corpus) :
        FailsWith(i) = "none" =>
            LET fs == parse_functions(corpus[i].url, corpus[i]).functions
            IN  \A n \in 1..Len(fs) : Pos(fs[n]) # {}

\* C3: when reading or tokenizing a file fails, the scan is not aborted: the
\* file is skipped and the functions of every remaining file are still
\* yielded and compared (in a corpus with no unparsable header).
C3_FailedFileSkipped ==
    (RunOver /\ \A i \in 1..Len(corpus) : FailsWith(i) # "TypeError") =>
        AllParsedIngested

\* C4: a function whose header cannot be parsed does not abort the scan: the
\* functions of the other files are still extracted and compared (in a
\* corpus whose files can all be read and tokenized).
C4_BadHeaderSkipped ==
    (RunOver /\ \A i \in 1..Len(corpus) : FailsWith(i) \in {"none", "TypeError"}) =>
        AllParsedIngested

\* C10: the set seen holds one record per ingested function, also when two
\* functions have the same shape, name and parameters, and every function
\* has been compared with each record ingested before it.
C10_SeenByIdentity ==
    /\ seen = Range(ingested)
    /\ Cardinality(seen) = Len(ingested)
    /\ compared = {<<ingested[e[1]], ingested[e[2]]>> :
                      e \in {x \in (1..Len(ingested)) \X (1..Len(ingested)) : x[2] < x[1]}}

\* C10's case: two functions equal in shape, name and parameters are both in
\* seen, and a function ingested after them was compared with both.
C10_Witness ==
    \E i, j, k \in 1..Len(ingested) :
        /\ i < j /\ j < k
        /\ create_token_type_word(ingested[i].tokens) = create_token_type_word(ingested[j].tokens)
        /\ ingested[i].name = ingested[j].name
        /\ ingested[i].args = ingested[j].args
        /\ {ingested[i], ingested[j]} \subseteq seen
        /\ {<<ingested[k], ingested[i]>>, <<ingested[k], ingested[j]>>} \subseteq compared

\* The records of the files loaded so far, in the order of the files.
RecordsOfLoaded ==
    Flatten([i \in 1..fileIdx |-> parse_functions(corpus[i].url, corpus[i]).functions])

\* C20: a file contributes all of its records or none.  Records are handed
\* to the scanner only by a call of parse_functions that consumed the whole
\* file; when the processing of a file fails, no record of that file is or
\* becomes part of the corpus, and the step that fails changes neither the
\* matches already printed nor the records accumulated from earlier files.
C20_AllOrNothing ==
    /\ [](pending # <<>> => error = "none")
    /\ [](error # "none" =>
            \A n \in 1..Len(ingested) : ingested[n].file_url # corpus[fileIdx].url)
    /\ [](pc = "load" => ingested = RecordsOfLoaded)
    /\ [][error' # "none" =>
            output' = output /\ seen' = seen /\ ingested' = ingested]_vars

\* C20's case: after matches were printed for an earlier file, a file failed
\* on the header of its second function, its first one already closed.
C20_Witness ==
    /\ pc = "aborted" /\ error = "TypeError"
    /\ output # <<>>
    /\ ingested # <<>>
    /\ corpus[fileIdx].lines = FnFor \o FnBadHeader

(***************************************************************************)
(* SpecHeader: one call of parse_function_header on the tokens of a header *)
(* `def f(<parameters>):`, each parameter a name, an optional annotation   *)
(* and an optional default value.                                          *)
(***************************************************************************)
ParamNames == {"a", "b"}

\* The token strings of an annotation: none, `int`, `List[int]`.
Annotations == {<<>>, <<"int">>, <<"List", "[", "int", "]">>}

\* The token strings of a default value: none, `1`, `(1, 2)`, `x + 1`, `g(1)`.
Defaults ==
    {<<>>, <<"1">>, <<"(", "1", ",", "2", ")">>, <<"x", "+", "1">>, <<"g", "(", "1", ")">>}

Params == [name : ParamNames, annotation : Annotations, default : Defaults]

\* The strings of the tokens the tokenizer yields for one parameter.
ParamStrings(p) ==
    <<p.name>>
        \o (IF p.annotation = <<>> THEN <<>> ELSE <<":">> \o p.annotation)
        \o (IF p.default = <<>> THEN <<>> ELSE <<"=">> \o p.default)

\* ... and for the header `def f(p1, p2, ...):`.
HeaderStrings(params) ==
    <<"def", "f", "(">>
        \o Flatten([i \in 1..Len(params) |->
                        (IF i = 1 THEN <<>> ELSE <<",">>) \o ParamStrings(params[i])])
        \o <<")", ":", "\n">>

InitHeader ==
    /\ IdleScan /\ IdleParse /\ IdleScorer /\ NoSpeedup
    /\ hdr \in SeqsUpTo(Params, MaxParams)
    /\ hres = [none |-> TRUE, name |-> "", args |-> <<>>]
    /\ error = "none" /\ pc = "header"

\* The call parse_function_header(parsed_tokens).
H_Call ==
    /\ pc = "header"
    /\ hres' = parse_function_header_strings(HeaderStrings(hdr))
    /\ pc' = "header_done"
    /\ UNCHANGED <<hdr, error>>
    /\ UNCHANGED scanVars /\ UNCHANGED parseVars /\ UNCHANGED scorerVars

NextHeader == H_Call

SpecHeader == InitHeader /\ [][NextHeader]_vars

(***************************************************************************)
(* Claims about parse_function_header, checked under SpecHeader.           *)
(***************************************************************************)
\* C8: for a header whose parameters carry default values or annotations,
\* parse_function_header returns the function's name and the ordered list of
\* exactly the parameter names: no token of a default or an annotation is in
\* the list and no parameter name is missing.
C8_ParamNamesOnly ==
    pc = "header_done" =>
        hres = [none |-> FALSE, name |-> "f", args |-> [i \in 1..Len(hdr) |-> hdr[i].name]]

(***************************************************************************)
(* The flow-length variant (unnamed.py): the record carries the            *)
(* control-flow-only word, find_duplicates takes one threshold.            *)
(***************************************************************************)
U_allowed == {"with", "for", "if", "elif", "while", "return", "in", "try", "except"}

filter_flow_tokens(function_tokens) ==
    LET Test(t) == t.string \in U_allowed
    IN  SelectSeq(function_tokens, Test)

\* Mutant: 'if' is given the digit of 'for'.
U_dictionary_clash ==
    "with" :> 48 @@ "for" :> 49 @@ "if" :> 49 @@ "elif" :> 51 @@ "while" :> 52 @@
    "return" :> 53 @@ "in" :> 54 @@ "try" :> 55 @@ "except" :> 56

\* The digits '0'..'8', as code points.
U_dictionary ==
    "with" :> 48 @@ "for" :> 49 @@ "if" :> 50 @@ "elif" :> 51 @@ "while" :> 52 @@
    "return" :> 53 @@ "in" :> 54 @@ "try" :> 55 @@ "except" :> 56

tokens_to_chars(filtered_tokens) ==
    [i \in 1..Len(filtered_tokens) |-> U_dictionary[filtered_tokens[i].string]]

U_TokenizedFunction(file_url, def_token, ref, parsed_tokens) ==
    LET parsed_header == parse_function_header(parsed_tokens)
    IN  [tokens |-> ref,
         file_url |-> file_url,
         line |-> def_token.start[1],
         name |-> parsed_header.name,
         args |-> parsed_header.args,
         flow_word |-> tokens_to_chars(filter_flow_tokens(parsed_tokens))]

\* One iteration of the loop of unnamed.py's parse_functions.
U_scan_token(url, s, tokenInfo) ==
    LET typ == tokenInfo.type
        \* lines 20-29
        s1 == IF s.indent = 0 /\ tokenInfo.string = "def"
              THEN [s EXCEPT !.def_token = tokenInfo, !.lists = Append(@, <<>>),
                             !.parsed_tokens = Len(s.lists) + 1, !.indent = -1]
              ELSE IF s.indent = -1 /\ typ = INDENT THEN [s EXCEPT !.indent = 2]
              ELSE IF s.indent > 1 /\ typ = DEDENT THEN [s EXCEPT !.indent = @ - 1]
              ELSE IF s.indent > 1 /\ typ = INDENT THEN [s EXCEPT !.indent = @ + 1]
              ELSE s
        \* lines 30-34
        s2 == IF s1.indent = 1 /\ typ = DEDENT
              THEN LET ref == s1.parsed_tokens
                       l == Append(s1.lists[ref], tokenInfo)
                       s1a == [s1 EXCEPT !.indent = 0, !.lists[ref] = l]
                   IN  IF parse_function_header(l).none
                       THEN [s1a EXCEPT !.raised = TRUE]
                       ELSE [s1a EXCEPT !.functions =
                                Append(@, U_TokenizedFunction(url, s1.def_token, ref, l))]
              ELSE s1
    IN  \* lines 35-36
        IF ~s2.raised /\ (s2.indent > 0 \/ s2.indent = -1)
        THEN [s2 EXCEPT !.lists[s2.parsed_tokens] = Append(@, tokenInfo)]
        ELSE s2

RECURSIVE U_scan_loop(_, _, _, _)
U_scan_loop(url, s, ts, i) ==
    IF i > Len(ts) \/ s.raised THEN s
    ELSE U_scan_loop(url, U_scan_token(url, s, ts[i]), ts, i + 1)

U_parse_functions(url, file) ==
    IF ~file.readable THEN [raised |-> "OSError", functions |-> <<>>]
    ELSE LET t == tokenize(file.lines)
             s == U_scan_loop(url, scan_start, t.toks, 1)
         IN  IF s.raised THEN [raised |-> "TypeError", functions |-> <<>>]
             ELSE IF t.error THEN [raised |-> "IndentationError", functions |-> <<>>]
             ELSE [raised |-> "none", functions |-> returned_functions(s)]

\* TokenizedFunction.similarity_ratio (unnamed.py).
U_similarity_ratio(self, tokenized_function) ==
    ratio(self.flow_word, tokenized_function.flow_word)

(***************************************************************************)
(* SpecFlow: a run of unnamed.py.                                          *)
(***************************************************************************)
\* Bodies whose control-flow-only words have 9, 9 and 5 characters.
BodyFor ==
    <<Line(1, "for x in x: if x: return x"), Line(1, "for x in x: if x: return x"),
      Line(1, "return x")>>
BodyWhile ==
    <<Line(1, "while x: if x: return x"), Line(1, "while x: if x: return x"),
      Line(1, "for x in x: pass"), Line(1, "return x")>>
BodyShort == <<Line(1, "for x in x: if x: return x"), Line(1, "return x")>>

U_Files ==
    { File("a.py", <<Line(0, "def f(a):")>> \o BodyFor),
      File("b.py", <<Line(0, "def __init__(self):")>> \o BodyFor),
      File("c.py", <<Line(0, "def g():")>> \o BodyWhile \o <<Line(0, "def f(a):")>> \o BodyShort),
      File("d.py", FnFor \o FnBadHeader) }

\* The numeric argument after the path.
U_Argvs == {<<>>, <<60>>}

\* main (unnamed.py): the threshold, with its default.
U_main(argv) == [minimum |-> IF Len(argv) >= 1 THEN argv[1] ELSE 75]

InitFlow ==
    /\ corpus \in Corpora(U_Files)
    /\ \E argv \in U_Argvs : min_similarity = U_main(argv).minimum
    /\ min_kw_count = 0
    /\ fileIdx = 0 /\ pending = <<>> /\ seen = {} /\ output = <<>>
    /\ ingested = <<>> /\ compared = {}
    /\ error = "none" /\ pc = "load"
    /\ IdleParse /\ IdleHeader /\ IdleScorer
    /\ matcher \in Matchers

\* load_functions (unnamed.py): the next file goes through parse_functions.
U_LoadFile ==
    /\ pc = "load"
    /\ fileIdx < Len(corpus)
    /\ LET r == U_parse_functions(corpus[fileIdx + 1].url, corpus[fileIdx + 1])
       IN  /\ fileIdx' = fileIdx + 1
           /\ pending' = r.functions
           /\ error' = r.raised
           /\ pc' = IF r.raised # "none" THEN "aborted"
                    ELSE IF r.functions = <<>> THEN "load" ELSE "yield"
    /\ UNCHANGED <<corpus, min_similarity, min_kw_count, seen, output, ingested, compared>>
    /\ UNCHANGED parseVars /\ UNCHANGED headerVars /\ UNCHANGED scorerVars

U_LoadDone ==
    /\ pc = "load"
    /\ fileIdx = Len(corpus)
    /\ pc' = "done"
    /\ UNCHANGED <<error>>
    /\ UNCHANGED scanVars /\ UNCHANGED parseVars /\ UNCHANGED headerVars /\ UNCHANGED scorerVars

\* The two tests under which unnamed.py's find_duplicates prints a pair.
U_is_duplicate(function, func, minimum) ==
    /\ U_similarity_ratio(function, func) >= minimum
    /\ Len(function.flow_word) > 8
    /\ Len(func.flow_word) > 8
    /\ function.name # "__init__"

U_inner_body(function, func, minimum) ==
    IF U_is_duplicate(function, func, minimum)
    THEN <<Match(function, func, U_similarity_ratio(function, func))>> ELSE <<>>

\* find_duplicates (unnamed.py): one iteration of its outer loop.
U_FindDuplicates ==
    /\ pc = "yield"
    /\ LET function == Head(pending)
           printed == [func \in seen |-> U_inner_body(function, func, min_similarity)]
       IN  /\ \E order \in Orderings(seen) :
                 output' = print(output,
                              Flatten([i \in 1..Len(order) |-> printed[order[i]]]))
           /\ compared' = compared \cup {<<function, func>> : func \in seen}
           /\ seen' = seen_add(seen, function)
           /\ ingested' = Append(ingested, function)
    /\ pending' = Tail(pending)
    /\ pc' = IF Tail(pending) = <<>> THEN "load" ELSE "yield"
    /\ UNCHANGED <<corpus, min_similarity, min_kw_count, fileIdx, error>>
    /\ UNCHANGED parseVars /\ UNCHANGED headerVars /\ UNCHANGED scorerVars

NextFlow == U_LoadFile \/ U_LoadDone \/ U_FindDuplicates

SpecFlow == InitFlow /\ [][NextFlow]_vars

(***************************************************************************)
(* Claims about a run of unnamed.py, checked under SpecFlow.               *)
(***************************************************************************)
\* C9: under the flow-length policy a pair (f, g), g seen before f, is
\* reported if and only if similarity(f, g) >= the threshold, the
\* control-flow-only words of both are longer than 8, and neither f nor g is
\* named '__init__'.
C9_FlowLengthPolicy ==
    \A i, j \in 1..Len(ingested) :
        j < i =>
            (Reports(i, j) # {} <=>
                /\ U_similarity_ratio(ingested[i], ingested[j]) >= min_similarity
                /\ Len(ingested[i].flow_word) > 8
                /\ Len(ingested[j].flow_word) > 8
                /\ ingested[i].name # "__init__"
                /\ ingested[j].name # "__init__")

(***************************************************************************)
(* SpecRatio: one call of fuzz.ratio on two strings over the characters    *)
(* '1', '2', '3', with either matcher.                                     *)
(***************************************************************************)
MaxWord == 3

\* The code points of '1', '2', '3'.
Alphabet == {49, 50, 51}

Words == SeqsUpTo(Alphabet, MaxWord)

InitRatio ==
    /\ IdleScan /\ IdleParse /\ IdleHeader
    /\ matcher \in Matchers
    /\ pair = <<<<>>, <<>>>>
    /\ words \in Words \X Words
    /\ score = -1
    /\ error = "none" /\ pc = "ratio"

\* The call fuzz.ratio(token_word_a, token_word_b).
R_Call ==
    /\ pc = "ratio"
    /\ score' = ratio(words[1], words[2])
    /\ pc' = "scored"
    /\ UNCHANGED <<matcher, pair, words, error>>
    /\ UNCHANGED scanVars /\ UNCHANGED parseVars /\ UNCHANGED headerVars

NextRatio == R_Call

SpecRatio == InitRatio /\ [][NextRatio]_vars

(***************************************************************************)
(* Claims about the similarity score, checked under SpecRatio.             *)
(***************************************************************************)
Min3(a, b, c) == IF a <= b /\ a <= c THEN a ELSE IF b <= c THEN b ELSE c

\* The minimum edit cost between the first i characters of a and the first j
\* of b: insertion and deletion cost 1, substitution costs 2.
RECURSIVE EditCost(_, _, _, _)
EditCost(a, b, i, j) ==
    IF i = 0 THEN j
    ELSE IF j = 0 THEN i
    ELSE Min3(EditCost(a, b, i - 1, j) + 1,
              EditCost(a, b, i, j - 1) + 1,
              EditCost(a, b, i - 1, j - 1) + (IF a[i] = b[j] THEN 0 ELSE 2))

\* n / d rounded to the nearest integer.
Nearest(n, d) == (2 * n + d) \div (2 * d)

\* C11: the similarity score is an integer in [0, 100] equal to
\* round(100 * (T - D) / T), T = len(a) + len(b), D the minimum edit cost with
\* insertion and deletion at 1 and substitution at 2, and 100 when both
\* strings are empty.
C11_EditDistanceScore ==
    pc = "scored" =>
        LET a == words[1]
            b == words[2]
            T == Len(a) + Len(b)
            D == EditCost(a, b, Len(a), Len(b))
        IN  /\ score \in 0..100
            /\ score = IF T = 0 THEN 100 ELSE Nearest(100 * (T - D), T)

\* C12: the similarity score is symmetric: ratio(a, b) = ratio(b, a).
C12_Symmetric == pc = "scored" => score = ratio(words[2], words[1])

(***************************************************************************)
(* SpecShape: one call of similarity_ratio (fuzzy_deduper.py) on the       *)
(* tokens of two records.                                                  *)
(***************************************************************************)
MaxToks == 2

\* A token type of Python 3.12 and later: the literal part of an f-string,
\* f"if" is FSTRING_START 'f"', FSTRING_MIDDLE 'if', FSTRING_END '"'.
token312 == [FSTRING_MIDDLE |-> 62]

\* Tokens the tokenizer can yield: two keywords, two identifiers, two
\* numbers, and an f-string part whose text is a keyword.
ShapeTokens ==
    { Tok(NAME, "if", 1, 0), Tok(NAME, "for", 1, 0),
      Tok(NAME, "x", 1, 0), Tok(NAME, "yy", 1, 0),
      Tok(token.NUMBER, "1", 1, 0), Tok(token.NUMBER, "22", 1, 0),
      Tok(token312.FSTRING_MIDDLE, "if", 1, 0) }

TokenSeqs == SeqsUpTo(ShapeTokens, MaxToks)

InitShape ==
    /\ IdleScan /\ IdleParse /\ IdleHeader
    /\ matcher \in Matchers
    /\ pair \in TokenSeqs \X TokenSeqs
    /\ words = <<<<>>, <<>>>> /\ score = -1
    /\ error = "none" /\ pc = "similarity_ratio"

\* self.similarity_ratio(tokenized_function).
S_Call ==
    /\ pc = "similarity_ratio"
    /\ LET token_word_a == create_token_type_word(pair[1])
           token_word_b == create_token_type_word(pair[2])
       IN  /\ words' = <<token_word_a, token_word_b>>
           /\ score' = ratio(token_word_a, token_word_b)
    /\ pc' = "compared"
    /\ UNCHANGED <<matcher, pair, error>>
    /\ UNCHANGED scanVars /\ UNCHANGED parseVars /\ UNCHANGED headerVars

NextShape == S_Call

SpecShape == InitShape /\ [][NextShape]_vars

(***************************************************************************)
(* Claims about the full-shape encoding, checked under SpecShape.          *)
(***************************************************************************)
\* The reserved keyword a token is, or "" when it is none.
KeywordOf(t) == IF t.type = NAME /\ t.string \in DOMAIN KW_DICT THEN t.string ELSE ""

\* Two token sequences of equal length that agree, position by position, on
\* the lexical category and on which keyword (if any) the token is.
SameStructure(a, b) ==
    /\ Len(a) = Len(b)
    /\ \A i \in 1..Len(a) : a[i].type = b[i].type /\ KeywordOf(a[i]) = KeywordOf(b[i])

\* C13: two token sequences of equal length that agree position by position
\* on lexical category and keyword, whatever the spellings of identifiers and
\* literals, have identical shape strings and similarity 100; in particular
\* similarity(a, a) = 100.
C13_SpellingIgnored ==
    (pc = "compared" /\ SameStructure(pair[1], pair[2])) =>
        words[1] = words[2] /\ score = 100

\* C13's case: two different sequences of the same structure, with a keyword,
\* have been compared.
C13_Witness ==
    /\ pc = "compared"
    /\ SameStructure(pair[1], pair[2])
    /\ pair[1] # pair[2]
    /\ \E i \in 1..Len(pair[1]) : KeywordOf(pair[1][i]) # ""

\* The symbols of keywords, and the symbols of lexical categories (chr of a
\* token type number).
KeywordSymbols == {KW_DICT[k] : k \in DOMAIN KW_DICT}
CategorySymbols == 0..255

\* Every keyword has a symbol of its own, and none is a category symbol.
KeywordSymbolsDistinct ==
    /\ \A k1, k2 \in DOMAIN KW_DICT : KW_DICT[k1] = KW_DICT[k2] => k1 = k2
    /\ KeywordSymbols \cap CategorySymbols = {}

\* C18: the full-shape encoding gives every keyword a symbol of its own, no
\* keyword symbol is the symbol of a lexical category, and two token
\* sequences with the same shape string have the same length and agree at
\* every position on keyword identity or, for tokens that are no keywords,
\* on lexical category.
C18_ShapeDistinguishes ==
    /\ KeywordSymbolsDistinct
    /\ (pc = "compared" /\ words[1] = words[2]) => SameStructure(pair[1], pair[2])
    /\ pc = "compared" =>
          \A k \in 1..2 : \A i \in 1..Len(pair[k]) :
              words[k][i] \in KeywordSymbols <=> KeywordOf(pair[k][i]) # ""

\* C18's case: two sequences that differ only in which keyword stands at a
\* position have been encoded, and their shape strings differ.
C18_Witness ==
    /\ pc = "compared"
    /\ Len(pair[1]) = Len(pair[2])
    /\ \A i \in 1..Len(pair[1]) :
          KeywordOf(pair[1][i]) # "" /\ KeywordOf(pair[2][i]) # ""
    /\ \E i \in 1..Len(pair[1]) : KeywordOf(pair[1][i]) # KeywordOf(pair[2][i])
    /\ words[1] # words[2]

\* C19: the keyword count of a record is the number of keyword symbols in
\* its shape string.
C19_KwCountIsSymbolCount ==
    pc = "compared" =>
        \A k \in 1..2 :
            count_keywords(pair[k])
                = Cardinality({i \in 1..Len(words[k]) : words[k][i] \in KeywordSymbols})

(***************************************************************************)
(* SpecFlowWord: the control-flow-only words of two records of unnamed.py  *)
(* (TokenizedFunction.__init__) and their similarity_ratio.                *)
(***************************************************************************)
InitFlowWord ==
    /\ IdleScan /\ IdleParse /\ IdleHeader
    /\ matcher \in Matchers
    /\ pair \in TokenSeqs \X TokenSeqs
    /\ words = <<<<>>, <<>>>> /\ score = -1
    /\ error = "none" /\ pc = "flow_word"

\* self.flow_word = tokens_to_chars(filter_flow_tokens(self.tokens)), for
\* both records.
U_FlowWord ==
    /\ pc = "flow_word"
    /\ words' = <<tokens_to_chars(filter_flow_tokens(pair[1])),
                  tokens_to_chars(filter_flow_tokens(pair[2]))>>
    /\ pc' = "flow_ratio"
    /\ UNCHANGED <<matcher, pair, score, error>>
    /\ UNCHANGED scanVars /\ UNCHANGED parseVars /\ UNCHANGED headerVars

\* self.similarity_ratio(tokenized_function).
U_Ratio ==
    /\ pc = "flow_ratio"
    /\ score' = ratio(words[1], words[2])
    /\ pc' = "flow_compared"
    /\ UNCHANGED <<matcher, pair, words, error>>
    /\ UNCHANGED scanVars /\ UNCHANGED parseVars /\ UNCHANGED headerVars

NextFlowWord == U_FlowWord \/ U_Ratio

SpecFlowWord == InitFlowWord /\ [][NextFlowWord]_vars

(***************************************************************************)
(* Claims about the control-flow-only encoding, checked under SpecFlowWord.*)
(***************************************************************************)
FlowWords == {"with", "for", "if", "elif", "while", "return", "in", "try", "except"}

\* The texts of the control-flow tokens of ts, in token order.
FlowTexts(ts) ==
    LET idx == SelectSeq([i \in 1..Len(ts) |-> i], LAMBDA i : ts[i].string \in FlowWords)
    IN  [n \in 1..Len(idx) |-> ts[idx[n]].string]

\* C14: the control-flow-only encoding is, in token order, exactly one digit
\* per token whose text is one of the nine control-flow words, distinct
\* words having distinct digits, and nothing for any other token; with no
\* such token it is the empty string, and the similarity of two empty
\* control-flow strings is 100.
C14_FlowEncoding ==
    pc \in {"flow_ratio", "flow_compared"} =>
        /\ \A k \in {1, 2} :
              /\ Len(words[k]) = Len(FlowTexts(pair[k]))
              /\ \A i \in 1..Len(words[k]) : words[k][i] \in 48..57
        /\ \A k, m \in {1, 2} :
              \A i \in 1..Len(words[k]) : \A j \in 1..Len(words[m]) :
                  (i <= Len(FlowTexts(pair[k])) /\ j <= Len(FlowTexts(pair[m]))) =>
                      (words[k][i] = words[m][j]
                          <=> FlowTexts(pair[k])[i] = FlowTexts(pair[m])[j])
        /\ (pc = "flow_compared" /\ FlowTexts(pair[1]) = <<>> /\ FlowTexts(pair[2]) = <<>>) =>
              words = <<<<>>, <<>>>> /\ score = 100

\* C14's case: two records without any control-flow token, the first with
\* tokens, have been encoded and compared.
C14_Witness ==
    /\ pc = "flow_compared"
    /\ pair[1] # <<>>
    /\ words = <<<<>>, <<>>>>

====
